---- MODULE Spec2Model ----
(***************************************************************************)
(* A model of src/Ehyd/main.py: the hydrological feature pipeline.         *)
(*                                                                         *)
(* The script is a sequence of pure table transformations, so every        *)
(* component is modelled as the function the code computes, applied by an  *)
(* action to inputs that Init draws from bounded sets:                     *)
(*   SpecNearest   find_nearest_coordinates            (lines 300-309)     *)
(*   SpecJoin      add_nearest_coordinates_column      (lines 312-355)     *)
(*   SpecJoinAny   the same function, any df_to_merge  (lines 312-344)     *)
(*   SpecCalendar  process_dataframes                  (lines 147-172)     *)
(*   SpecImputer   nan_imputer                         (lines 364-382)     *)
(*   SpecLag       add_lag_and_rolling_mean            (lines 432-447)     *)
(*   SpecWindows   create_windows                      (lines 556-572)     *)
(*   SpecParse     to_dataframe, the lines of one file (lines 87-125)      *)
(*   SpecFolder    to_dataframe, the files of a folder (lines 46-134)      *)
(*   SpecPipeline  imputation, augmentation, padding   (lines 384-484)     *)
(*   SpecDict      nan_imputer over a dictionary       (lines 364-382)     *)
(*                                                                         *)
(* A DataFrame is [columns |-> <<labels>>, rows |-> <<tuples>>]; the index *)
(* of a coordinate or feature table is its row position (the tables come   *)
(* from read_csv and boolean filters, so their index labels are unique).   *)
(* Numbers that can be means are exact rationals <<num, den>>; floating    *)
(* point rounding is not modelled.                                         *)
(***************************************************************************)
EXTENDS Integers, Sequences, FiniteSets, TLC

VARIABLES
    pandas_empty_apply,      \* what DataFrame.apply(axis=1) does on a frame with no rows
    gw_row, df, k, nearest,  \* find_nearest_coordinates: arguments and outcome
    filtered_gw_coordinates, \* the target stations (global, line 265)
    df_to_add,               \* the candidate table of the auxiliary domain
    data,                    \* the running Feature Table (global, lines 312, 346-355)
    script_pc,               \* where the assembly of lines 346-355 stands
    results,                 \* the list the last call collected (local, line 316)
    ret,                     \* the last add_nearest_coordinates_column call
    rerun,                   \* the same call made a second time
    df_value, processed,     \* process_dataframes: a parsed series and its frame
    unfilled, filled,        \* nan_imputer: a frame of the dictionary and its copy
    series, window, augmented,   \* add_lag_and_rolling_mean: Values, window, new columns
    num_time_steps, window_size, forecast_horizon,   \* create_windows: arguments
    start, X, y, windows_pc,                         \* create_windows: the loop
    data_lines, line_no,     \* to_dataframe: the lines after the marker, the next one
    data_rows, df_file,      \* the list `data` of line 87 and the frame of lines 121-122
    parse_pc,                \* where the loop of lines 90-118 stands
    files, file_no,          \* to_dataframe: the folder's listing and the next file
    dataframes_dict, coordinates,   \* what to_dataframe returns (line 134)
    folder_pc,               \* where the loop of line 62 stands
    pipeline_pc,             \* the script between lines 384 and 484
    station_df,              \* one frame of a filled dictionary, changed by each stage
    unfilled_dict, new_dict, \* nan_imputer: its argument and the dictionary it builds
    dict_pc                  \* where the loop of line 366 stands

nearestVars == <<gw_row, df, k, nearest>>
joinVars == <<filtered_gw_coordinates, df_to_add, data, script_pc, results, ret, rerun>>
calendarVars == <<df_value, processed>>
imputerVars == <<unfilled, filled>>
lagVars == <<series, window, augmented>>
windowVars == <<num_time_steps, window_size, forecast_horizon, start, X, y, windows_pc>>
parseVars == <<data_lines, line_no, data_rows, df_file, parse_pc>>
folderVars == <<files, file_no, dataframes_dict, coordinates, folder_pc>>
pipelineVars == <<pipeline_pc, station_df>>
dictVars == <<unfilled_dict, new_dict, dict_pc>>
vars == <<pandas_empty_apply, nearestVars, joinVars, calendarVars, imputerVars,
          lagVars, windowVars, parseVars, folderVars, pipelineVars, dictVars>>

(***************************************************************************)
(* Bounds of the model.                                                    *)
(***************************************************************************)
MaxCoord == 1        \* x ranges over 0..MaxCoord
MaxCands == 3        \* rows of a candidate table given to find_nearest_coordinates
MaxK == 4            \* k ranges over 0..MaxK
MaxTargets == 2      \* rows of filtered_gw_coordinates
MaxFeatCols == 2     \* threaded calls before the script stops
CalMonths == 6       \* months of the global calendar (1960-01 .. 2021-12 in the code)
MonthsPerYear == 2   \* months of a year (12 in the code)
MaxRows == 3         \* rows of a parsed series
SeriesLen == 4       \* rows of a frame given to add_lag_and_rolling_mean
MaxWindow == 3       \* window ranges over 1..MaxWindow
MaxTimeSteps == 24   \* time steps of the array given to create_windows
MaxWindowSize == 12  \* window_size ranges over 1..MaxWindowSize
MaxHorizon == 6      \* forecast_horizon ranges over 1..MaxHorizon

Min(a, b) == IF a < b THEN a ELSE b
Range(s) == {s[i] : i \in DOMAIN s}

(***************************************************************************)
(* DataFrames.                                                             *)
(***************************************************************************)
EmptyFrame == [columns |-> <<>>, rows |-> <<>>]          \* pd.DataFrame()
CoordColumns == <<"x", "y", "hzbnr01">>                  \* line 41

HasColumn(frame, name) == \E i \in DOMAIN frame.columns : frame.columns[i] = name
ColIdx(frame, name) == CHOOSE i \in DOMAIN frame.columns : frame.columns[i] = name
Cell(frame, r, name) == frame.rows[r][ColIdx(frame, name)]
ColumnList(frame, name) == [r \in DOMAIN frame.rows |-> Cell(frame, r, name)]

Points == (0..MaxCoord) \X {0, 1}
\* Station identifiers are opaque labels, unique within a domain.  The
\* candidates' identifiers fall as the row number rises, so that row order
\* and identifier order differ.
GwId(i) == 300 + i
CandId(i) == 200 - i

\* the table of the stations base + step, base + 2 * step, ... at the points pts
CoordTable(pts, base, step) ==
    [columns |-> CoordColumns,
     rows |-> [i \in DOMAIN pts |-> <<pts[i][1], pts[i][2], base + step * i>>]]

CoordTables(n, base, step) ==
    UNION {{CoordTable(pts, base, step) : pts \in [1..len -> Points]} : len \in 1..n}

(***************************************************************************)
(* find_nearest_coordinates, lines 300-309.                                *)
(***************************************************************************)
\* distance.euclidean is the square root of this sum; nsmallest only
\* compares distances, and the square root is monotone, so the model keeps
\* the squared distance.
calculate_distance(coord1, coord2) ==
    (coord1[1] - coord2[1]) * (coord1[1] - coord2[1])
        + (coord1[2] - coord2[2]) * (coord1[2] - coord2[2])

\* lines 304-307: one distance per row of df
Distances(row, frame) ==
    [i \in DOMAIN frame.rows |->
        calculate_distance(<<row[1], row[2]>>,
                           <<Cell(frame, i, "x"), Cell(frame, i, "y")>>)]

\* Series.nsmallest(k), keep='first': the positions of the k smallest values,
\* smallest first, equal values in their order of appearance.
InsertLast(sorted, i, dist) ==
    LET before == {j \in DOMAIN sorted : dist[sorted[j]] <= dist[i]}
        n == Cardinality(before)
    IN SubSeq(sorted, 1, n) \o <<i>> \o SubSeq(sorted, n + 1, Len(sorted))

InsertFirst(sorted, i, dist) ==
    LET before == {j \in DOMAIN sorted : dist[sorted[j]] < dist[i]}
        n == Cardinality(before)
    IN SubSeq(sorted, 1, n) \o <<i>> \o SubSeq(sorted, n + 1, Len(sorted))

StableInsert(sorted, i, dist) == InsertLast(sorted, i, dist)

RECURSIVE SortedPositions(_, _)
SortedPositions(dist, n) ==
    IF n = 0 THEN <<>>
    ELSE StableInsert(SortedPositions(dist, n - 1), n, dist)

nsmallest(dist, n) ==
    SubSeq(SortedPositions(dist, Len(dist)), 1, Min(n, Len(dist)))

\* df.loc[nearest_indices]
Loc(frame, idx) ==
    [columns |-> frame.columns, rows |-> [i \in DOMAIN idx |-> frame.rows[idx[i]]]]

\* A frame with no rows: DataFrame.apply calls the lambda once on an empty
\* row to see whether it reduces.  On pd.DataFrame() the lambda raises
\* KeyError('x'), apply returns a copy of the empty DataFrame, and
\* DataFrame.nsmallest(k) lacks its 'columns' argument: TypeError.  On a
\* frame that has the columns but no rows the probe row is empty in one
\* pandas line (same TypeError) and NaN-filled in the other (an empty Series
\* of distances, hence an empty result).
find_nearest_coordinates(row, frame, kk, build) ==
    IF Len(frame.rows) = 0
    THEN IF HasColumn(frame, "x") /\ HasColumn(frame, "y") /\ build = "reduce"
         THEN [outcome |-> "returned", frame |-> Loc(frame, <<>>)]
         ELSE [outcome |-> "TypeError", frame |-> EmptyFrame]
    ELSE [outcome |-> "returned",
          frame |-> Loc(frame, nsmallest(Distances(row, frame), kk))]

NotCalled == [outcome |-> "not_called", frame |-> EmptyFrame]

\* The candidate tables a caller can hold: pd.DataFrame() (line 65, when a
\* folder yields no series), a filtered registry with no row left, or a
\* registry of stations.
NoRowTable == [columns |-> CoordColumns, rows |-> <<>>]
CandidateTables(n) == {EmptyFrame, NoRowTable} \cup CoordTables(n, CandId(0), -1)

InitIdleNearest ==
    /\ gw_row = <<0, 0, GwId(1)>>
    /\ df = EmptyFrame
    /\ k = 0
    /\ nearest = NotCalled

(***************************************************************************)
(* Claims about find_nearest_coordinates.                                  *)
(***************************************************************************)
Ids(frame) == ColumnList(frame, "hzbnr01")
Distinct(s) == \A i, j \in DOMAIN s : s[i] = s[j] => i = j
\* the row of df a returned row was taken from (candidate ids are unique)
PosOf(row) == CHOOSE p \in DOMAIN df.rows : df.rows[p] = row
DistOf(p) == Distances(gw_row, df)[p]

\* C1: for every target, candidate table and k >= 0 the call returns, without
\* an error, exactly min(k, #candidates) candidate rows in non-decreasing
\* distance from the target and with no identifier twice.
C1_Claim ==
    nearest.outcome # "not_called" =>
        /\ nearest.outcome = "returned"
        /\ Len(nearest.frame.rows) = Min(k, Len(df.rows))
        /\ \A i \in DOMAIN nearest.frame.rows : nearest.frame.rows[i] \in Range(df.rows)
        /\ \A i, j \in DOMAIN nearest.frame.rows :
              i < j => DistOf(PosOf(nearest.frame.rows[i])) <= DistOf(PosOf(nearest.frame.rows[j]))
        /\ Distinct(Ids(nearest.frame))

\* (p, q): p comes before q in the stable order by distance
StablyBefore(p, q) == DistOf(p) < DistOf(q) \/ (DistOf(p) = DistOf(q) /\ p < q)
Chosen == {PosOf(nearest.frame.rows[i]) : i \in DOMAIN nearest.frame.rows}

ColumnNames == {"nearest_rain", "nearest_snow"}

\* line 316: every call starts from an empty list, whatever an earlier call
\* collected
KeepResults(earlier) == earlier
FreshResults(earlier) == <<>>

\* line 319: iterrows visits every row of filtered_gw_coordinates
AllButLast(targets) == IF Len(targets.rows) = 0 THEN 0 ELSE Len(targets.rows) - 1
TargetCount(targets) == Len(targets.rows)

\* lines 319-325: one result row per target station appended to the list, or
\* the error of the first find_nearest_coordinates call that fails
RECURSIVE Results(_, _, _, _, _, _)
Results(targets, cands, kk, build, seed, n) ==
    IF n = 0 THEN [outcome |-> "returned", rows |-> seed]
    ELSE LET sofar == Results(targets, cands, kk, build, seed, n - 1)
             found == find_nearest_coordinates(targets.rows[n], cands, kk, build)
         IN IF sofar.outcome # "returned" THEN sofar
            ELSE IF found.outcome # "returned"
                 THEN [outcome |-> found.outcome, rows |-> sofar.rows]
                 ELSE [outcome |-> "returned",
                       rows |-> Append(sofar.rows,
                                       <<Cell(targets, n, "hzbnr01"), Ids(found.frame)>>)]

\* line 327: pd.DataFrame(results); an empty list gives a frame with no column
results_df(rows, name) ==
    IF Len(rows) = 0 THEN EmptyFrame
    ELSE [columns |-> <<"hzbnr01", name>>, rows |-> rows]

\* DataFrame.merge(right, on='hzbnr01', how='inner'): the rows of left in
\* their order, each paired with every row of right of the same key; a
\* column label the two frames share takes the suffixes _x and _y.  (A
\* suffixed label that is already there needs the same name in four threaded
\* calls, more than MaxFeatCols allows here.)
RECURSIVE Flatten(_)
Flatten(ss) == IF Len(ss) = 0 THEN <<>> ELSE Head(ss) \o Flatten(Tail(ss))

\* the rows whose first cell is key, in their order
SelectRows(rows, key) ==
    LET keep == {i \in DOMAIN rows : rows[i][1] = key}
        nth(j) == CHOOSE i \in keep : Cardinality({h \in keep : h < i}) = j - 1
    IN [j \in 1..Cardinality(keep) |-> rows[nth(j)]]

merge(left, right) ==
    LET name == right.columns[2]
        clash == HasColumn(left, name)
        lcols == [i \in DOMAIN left.columns |->
                    IF left.columns[i] = name THEN name \o "_x" ELSE left.columns[i]]
        rcol == IF clash THEN name \o "_y" ELSE name
        lkey == ColIdx(left, "hzbnr01")
        Match(lrow) ==
            LET hits == SelectRows(right.rows, lrow[lkey])
            IN [h \in DOMAIN hits |-> Append(lrow, hits[h][2])]
    IN [columns |-> Append(lcols, rcol),
        rows |-> Flatten([i \in DOMAIN left.rows |-> Match(left.rows[i])])]

\* lines 314-315: None stands for the global data
None == [given |-> FALSE, frame |-> EmptyFrame]
Given(frame) == [given |-> TRUE, frame |-> frame]
ResolveMerge(arg, global) == IF arg.given THEN arg.frame ELSE global

\* the whole call: the outcome, the frame it returns and the list it leaves
add_nearest_coordinates_column(cands, name, kk, arg, targets, global, earlier, build) ==
    LET df_to_merge == ResolveMerge(arg, global)
        res == Results(targets, cands, kk, build, FreshResults(earlier), TargetCount(targets))
        rdf == results_df(res.rows, name)
    IN IF res.outcome # "returned"
       THEN [outcome |-> res.outcome, frame |-> EmptyFrame, results |-> res.rows]
       ELSE IF HasColumn(df_to_merge, "hzbnr01") /\ HasColumn(rdf, "hzbnr01")
            THEN [outcome |-> "returned", frame |-> merge(df_to_merge, rdf),
                  results |-> res.rows]
            ELSE [outcome |-> "KeyError", frame |-> EmptyFrame, results |-> res.rows]

NoCall ==
    [outcome |-> "not_called", by |-> "nobody", df_to_add |-> EmptyFrame,
     name |-> "", k |-> 0, arg |-> None, df_to_merge |-> EmptyFrame,
     targets |-> EmptyFrame, frame |-> EmptyFrame]

CallRecord(who, cands, name, kk, arg, out) ==
    [outcome |-> out.outcome, by |-> who, df_to_add |-> cands, name |-> name,
     k |-> kk, arg |-> arg, df_to_merge |-> ResolveMerge(arg, data),
     targets |-> filtered_gw_coordinates, frame |-> out.frame]

InitIdleJoin ==
    /\ filtered_gw_coordinates = NoRowTable
    /\ df_to_add = EmptyFrame
    /\ data = EmptyFrame
    /\ script_pc = "line346"
    /\ results = <<>>
    /\ ret = NoCall
    /\ rerun = NoCall

\* to_dataframe has not been called
InitIdleParse ==
    /\ data_lines = <<>>
    /\ line_no = 1
    /\ data_rows = <<>>
    /\ df_file = [built |-> FALSE, rows |-> <<>>]
    /\ parse_pc = "idle"

InitIdleFolder ==
    /\ files = <<>>
    /\ file_no = 1
    /\ dataframes_dict = <<>>
    /\ coordinates = {}
    /\ folder_pc = "idle"

\* the script has not reached line 384
InitIdlePipeline ==
    /\ pipeline_pc = "idle"
    /\ station_df = [Values |-> <<>>, lag_1 |-> <<>>, rolling_mean |-> <<>>,
                     columns |-> 1]

InitIdleDict ==
    /\ unfilled_dict = <<>>
    /\ new_dict = <<>>
    /\ dict_pc = "idle"

\* nothing after the join has run
InitIdleLater ==
    /\ InitIdleParse
    /\ InitIdleFolder
    /\ InitIdlePipeline
    /\ InitIdleDict

InitIdleTensor ==
    /\ series = <<>>
    /\ window = 1
    /\ augmented = [done |-> FALSE, lag_1 |-> <<>>, rolling_mean |-> <<>>]
    /\ num_time_steps = 0
    /\ window_size = 1
    /\ forecast_horizon = 1
    /\ start = 0
    /\ X = <<>>
    /\ y = <<>>
    /\ windows_pc = "idle"

InitIdleFrames ==
    /\ df_value = <<>>
    /\ processed = [done |-> FALSE, rows |-> <<>>]
    /\ unfilled = <<>>
    /\ filled = [done |-> FALSE, values |-> <<>>]
    /\ InitIdleTensor

InitIdleSeries ==
    /\ InitIdleFrames
    /\ InitIdleLater

InitNearest ==
    /\ pandas_empty_apply \in {"copy", "reduce"}
    /\ gw_row \in {<<p[1], p[2], GwId(1)>> : p \in Points}
    /\ df \in CandidateTables(MaxCands)
    /\ k \in 0..MaxK
    /\ nearest = NotCalled
    /\ InitIdleJoin
    /\ InitIdleSeries

FindNearest ==
    /\ nearest.outcome = "not_called"
    /\ nearest' = find_nearest_coordinates(gw_row, df, k, pandas_empty_apply)
    /\ UNCHANGED <<parseVars, folderVars, pipelineVars, dictVars,
                   pandas_empty_apply, gw_row, df, k, joinVars, calendarVars, imputerVars,
                   lagVars, windowVars>>

NextNearest == FindNearest

SpecNearest == InitNearest /\ [][NextNearest]_vars

(***************************************************************************)
(* The join model: the script's threaded calls, a call with any            *)
(* df_to_merge, and the same call made again.                              *)
(***************************************************************************)
\* The join model keeps the tables small: target i lies at (i - 1, 0), the
\* candidate table has at most two stations on the line y = 0, and k is 0,
\* 1 or 2.
JoinTargets == {NoRowTable} \cup
    {CoordTable([i \in 1..n |-> <<i - 1, 0>>], GwId(0), 1) : n \in 1..MaxTargets}
JoinCandidates == {EmptyFrame, NoRowTable} \cup
    UNION {{CoordTable(pts, CandId(0), -1) : pts \in [1..len -> (0..MaxCoord) \X {0}]} : len \in 1..2}
JoinKs == {0, 1, 2}

InitJoin ==
    /\ pandas_empty_apply \in {"copy", "reduce"}
    /\ InitIdleNearest
    /\ filtered_gw_coordinates \in JoinTargets
    /\ df_to_add \in JoinCandidates
    /\ data = EmptyFrame                                     \* line 312
    /\ script_pc = "line346"
    /\ results = <<>>
    /\ ret = NoCall
    /\ rerun = NoCall
    /\ InitIdleSeries

\* what a step of the spatial join leaves alone
SeriesUnchanged == UNCHANGED <<calendarVars, imputerVars, lagVars, windowVars>>

FeatCols(frame) == {i \in DOMAIN frame.columns : frame.columns[i] \notin Range(CoordColumns)}

\* lines 346-355: data = add_nearest_coordinates_column(..., df_to_merge=...),
\* the first call on filtered_gw_coordinates, the later ones on data; an
\* error ends the script
ScriptStep ==
    /\ script_pc \in {"line346", "threading"}
    /\ Cardinality(FeatCols(data)) < MaxFeatCols
    /\ \E name \in ColumnNames, kk \in JoinKs :
          LET arg == Given(IF script_pc = "line346" THEN filtered_gw_coordinates ELSE data)
              out == add_nearest_coordinates_column(df_to_add, name, kk, arg,
                        filtered_gw_coordinates, data, results, pandas_empty_apply)
          IN /\ ret' = CallRecord("script", df_to_add, name, kk, arg, out)
             /\ results' = out.results
             /\ data' = IF out.outcome = "returned" THEN out.frame ELSE data
             /\ script_pc' = IF out.outcome = "returned" THEN "threading" ELSE "aborted"
    /\ rerun' = NoCall
    /\ UNCHANGED <<parseVars, folderVars, pipelineVars, dictVars,
                   pandas_empty_apply, nearestVars, filtered_gw_coordinates, df_to_add>>
    /\ SeriesUnchanged

\* the tables another caller may pass as df_to_merge: nothing (the default),
\* pd.DataFrame(), the targets, the running table, and tables whose rows
\* are not the targets' rows
ExtraRow == <<0, 0, GwId(0)>>
WithRows(frame, rows) == [columns |-> frame.columns, rows |-> rows]
MergeArgs ==
    {None, Given(EmptyFrame), Given(filtered_gw_coordinates), Given(data)}
    \cup {Given(WithRows(filtered_gw_coordinates, Append(filtered_gw_coordinates.rows, ExtraRow)))}
    \cup (IF Len(filtered_gw_coordinates.rows) = 0 THEN {}
          ELSE {Given(WithRows(filtered_gw_coordinates, Tail(filtered_gw_coordinates.rows))),
                Given(WithRows(filtered_gw_coordinates,
                               <<Head(filtered_gw_coordinates.rows)>> \o filtered_gw_coordinates.rows))})

\* a call of the function by another caller, made before the script's own
\* calls; the caller keeps the returned table for itself
Call ==
    /\ ret.outcome = "not_called"
    /\ \E arg \in MergeArgs, name \in ColumnNames, kk \in JoinKs :
          LET out == add_nearest_coordinates_column(df_to_add, name, kk, arg,
                        filtered_gw_coordinates, data, results, pandas_empty_apply)
          IN /\ ret' = CallRecord("caller", df_to_add, name, kk, arg, out)
             /\ results' = out.results
    /\ rerun' = NoCall
    /\ UNCHANGED <<parseVars, folderVars, pipelineVars, dictVars,
                   pandas_empty_apply, nearestVars, filtered_gw_coordinates, df_to_add,
                   data, script_pc>>
    /\ SeriesUnchanged

\* the last call once more, with the tables and values it was given
Rerun ==
    /\ ret.outcome # "not_called"
    /\ rerun.outcome = "not_called"
    /\ LET out == add_nearest_coordinates_column(ret.df_to_add, ret.name, ret.k,
                     Given(ret.df_to_merge), filtered_gw_coordinates, data, results,
                     pandas_empty_apply)
       IN /\ rerun' = CallRecord("rerun", ret.df_to_add, ret.name, ret.k,
                                 Given(ret.df_to_merge), out)
          /\ results' = out.results
    /\ UNCHANGED <<parseVars, folderVars, pipelineVars, dictVars,
                   pandas_empty_apply, nearestVars, filtered_gw_coordinates, df_to_add,
                   data, script_pc, ret>>
    /\ SeriesUnchanged

NextJoin == ScriptStep \/ Rerun

SpecJoin == InitJoin /\ [][NextJoin]_vars

NextJoinAny == Call

SpecJoinAny == InitJoin /\ [][NextJoinAny]_vars

(***************************************************************************)
(* Claims about add_nearest_coordinates_column.                            *)
(***************************************************************************)
\* C3: every call of the threaded assembly returns a table with the station
\* rows of the table passed in: the same identifiers, as many, in the same
\* order, which are the target stations' rows.
C3_RowSetStable ==
    (ret.by = "script" /\ ret.outcome = "returned") =>
        /\ Ids(ret.frame) = Ids(ret.df_to_merge)
        /\ Ids(ret.frame) = Ids(filtered_gw_coordinates)
        /\ data.columns = ret.frame.columns
        /\ data.rows = ret.frame.rows

\* two threaded calls on two targets, the second with real neighbour lists
C3_Witness ==
    /\ ret.by = "script" /\ ret.outcome = "returned"
    /\ Cardinality(FeatCols(data)) = 2
    /\ Len(data.rows) = 2
    /\ ret.k = 2 /\ Len(ret.df_to_add.rows) = 2

\* C4: a merge step that would change the row set raises; no call returns a
\* table whose station rows differ from those of df_to_merge, and a
\* df_to_merge without the key column raises.
C4_Claim ==
    ret.by = "caller" =>
        /\ ~HasColumn(ret.df_to_merge, "hzbnr01") => ret.outcome # "returned"
        /\ ret.outcome = "returned" => Ids(ret.frame) = Ids(ret.df_to_merge)

\* C5: the same call made twice ends the same way with the same table, the
\* same neighbour lists and as many rows, and the tables it was given are
\* what they were.
C5_Idempotent ==
    rerun.outcome # "not_called" =>
        /\ rerun.outcome = ret.outcome
        /\ rerun.frame.columns = ret.frame.columns
        /\ rerun.frame.rows = ret.frame.rows
        /\ rerun.df_to_merge = ret.df_to_merge
        /\ df_to_add = ret.df_to_add
        /\ filtered_gw_coordinates = ret.targets

\* a second run that returned two rows with two neighbours each
C5_Witness ==
    /\ rerun.outcome = "returned"
    /\ Len(rerun.frame.rows) = 2
    /\ rerun.k = 2 /\ Len(rerun.df_to_add.rows) = 2
    /\ Cardinality(FeatCols(rerun.frame)) = 2

(***************************************************************************)
(* Numbers.  A value is an exact rational <<num, den>> with den > 0; the   *)
(* float NaN is <<0, 0>>, and the string "NaN" that process_dataframes     *)
(* writes into a frame (line 170) is <<0, -1>>.  Both are missing markers  *)
(* and neither is the number zero, <<0, 1>>.                               *)
(***************************************************************************)
NaN == <<0, 0>>
NaNString == <<0, -1>>
Zero == <<0, 1>>
Num(n) == <<n, 1>>
IsNumber(v) == v[2] > 0
IsMissing(v) == v[2] <= 0

RECURSIVE Gcd(_, _)
Gcd(a, b) == IF b = 0 THEN a ELSE Gcd(b, a % b)
Norm(v) == LET g == Gcd(v[1], v[2]) IN <<v[1] \div g, v[2] \div g>>
RAdd(a, b) == Norm(<<a[1] * b[2] + b[1] * a[2], a[2] * b[2]>>)

RECURSIVE RSum(_)
RSum(vs) == IF Len(vs) = 0 THEN Zero ELSE RAdd(Head(vs), RSum(Tail(vs)))

\* the elements of a sequence that pass, in their order
RECURSIVE Numbers(_)
Numbers(vs) ==
    IF Len(vs) = 0 THEN <<>>
    ELSE IF IsNumber(Head(vs)) THEN <<Head(vs)>> \o Numbers(Tail(vs))
         ELSE Numbers(Tail(vs))

\* Series.mean(): missing entries are skipped; the mean of nothing is NaN
ZeroOfNone == Zero
MeanOfNone == NaN
Mean(vs) ==
    LET nums == Numbers(vs)
    IN IF Len(nums) = 0 THEN MeanOfNone
       ELSE LET total == RSum(nums) IN Norm(<<total[1], total[2] * Len(nums)>>)

(***************************************************************************)
(* process_dataframes, lines 147-172.  A date is <<month, day>>; the       *)
(* months are numbered so that the global calendar is 1 .. CalMonths, and  *)
(* a file may hold dates of the month before and of the month after        *)
(* (line 122: the export ends with a row of 2022-01-01).                   *)
(***************************************************************************)
MonthStart(m) == <<m, 1>>
all_dates == [m \in 1..CalMonths |-> MonthStart(m)]          \* line 168

Dates == (0..(CalMonths + 1)) \X {1, 2}
ParsedRows == [Date : Dates, Values : {NaN, Num(1), Num(3)}]
ParsedSeries == UNION {[1..n -> ParsedRows] : n \in 0..MaxRows}

\* line 160: more distinct days than distinct months
IsDaily(rows) ==
    Cardinality({rows[i].Date : i \in DOMAIN rows})
        > Cardinality({rows[i].Date[1] : i \in DOMAIN rows})

\* the rows of a frame that pass a test on the date, in their order
RECURSIVE RowsOn(_, _)
RowsOn(rows, date) ==
    IF Len(rows) = 0 THEN <<>>
    ELSE IF Head(rows).Date = date THEN <<Head(rows)>> \o RowsOn(Tail(rows), date)
         ELSE RowsOn(Tail(rows), date)

RECURSIVE ValuesIn(_, _)
ValuesIn(rows, month) ==
    IF Len(rows) = 0 THEN <<>>
    ELSE IF Head(rows).Date[1] = month THEN <<Head(rows).Values>> \o ValuesIn(Tail(rows), month)
         ELSE ValuesIn(Tail(rows), month)

\* line 162: resample('MS').mean(): one row per month from the first month
\* of the data to the last, holding the mean of the month's values
Resample(rows) ==
    LET months == {rows[i].Date[1] : i \in DOMAIN rows}
        lo == CHOOSE m \in months : \A o \in months : m <= o
        hi == CHOOSE m \in months : \A o \in months : o <= m
    IN [j \in 1..(hi - lo + 1) |->
           [Date |-> MonthStart(lo + j - 1), Values |-> Mean(ValuesIn(rows, lo + j - 1))]]

\* line 170: new_df.join(frame, how='left'): for every calendar date, in
\* order, the rows of the frame on that date, or one row of NaN
LeftJoin(dates, rows) ==
    Flatten([i \in DOMAIN dates |->
        LET hits == RowsOn(rows, dates[i])
        IN IF Len(hits) = 0 THEN <<[Date |-> dates[i], Values |-> NaN]>> ELSE hits])

\* line 170: fillna("NaN")
FillNaString(rows) ==
    [i \in DOMAIN rows |->
        [Date |-> rows[i].Date,
         Values |-> IF rows[i].Values = NaN THEN NaNString ELSE rows[i].Values]]

process_dataframes(rows) ==
    LET frame == IF IsDaily(rows) THEN Resample(rows) ELSE rows      \* lines 160-166
    IN FillNaString(LeftJoin(all_dates, frame))

InitIdleRest ==
    /\ pandas_empty_apply = "copy"
    /\ InitIdleNearest
    /\ InitIdleJoin
    /\ InitIdleLater

InitCalendar ==
    /\ InitIdleRest
    /\ df_value \in ParsedSeries
    /\ processed = [done |-> FALSE, rows |-> <<>>]
    /\ unfilled = <<>>
    /\ filled = [done |-> FALSE, values |-> <<>>]
    /\ InitIdleTensor

ProcessDataframes ==
    /\ ~processed.done
    /\ processed' = [done |-> TRUE, rows |-> process_dataframes(df_value)]
    /\ UNCHANGED <<parseVars, folderVars, pipelineVars, dictVars,
                   pandas_empty_apply, nearestVars, joinVars, df_value, imputerVars,
                   lagVars, windowVars>>

NextCalendar == ProcessDataframes

SpecCalendar == InitCalendar /\ [][NextCalendar]_vars

Index(rows) == [i \in DOMAIN rows |-> rows[i].Date]
\* the month m has an observation that reaches the frame
Observed(m) ==
    \E i \in DOMAIN df_value :
        /\ df_value[i].Date[1] = m
        /\ IsNumber(df_value[i].Values)

\* C6: the index of every processed frame, daily or monthly, is the global
\* calendar: every month start once, in order, none absent; a month without
\* an observation holds the missing marker, not zero.
C6_Claim ==
    processed.done =>
        /\ Index(processed.rows) = all_dates
        /\ \A i \in DOMAIN processed.rows :
              ~Observed(processed.rows[i].Date[1]) => processed.rows[i].Values = NaNString

(***************************************************************************)
(* nan_imputer, lines 364-382, on one frame of the dictionary.  The frame  *)
(* is the list of its Values over the calendar, position i being month     *)
(* start i; the calendar starts with the first month of a year.            *)
(***************************************************************************)
MonthOf(i) == ((i - 1) % MonthsPerYear) + 1              \* index.month

FrameValues == [1..CalMonths -> {NaNString, Num(1), Num(3), Num(4)}]

\* line 368: replace('NaN', np.nan)
ReplaceNaString(values) ==
    [i \in DOMAIN values |-> IF values[i] = NaNString THEN NaN ELSE values[i]]

\* line 369: the first position that holds a number, 0 for None
first_valid_index(values) ==
    IF \E i \in DOMAIN values : IsNumber(values[i])
    THEN CHOOSE i \in DOMAIN values :
            IsNumber(values[i]) /\ \A j \in 1..(i - 1) : ~IsNumber(values[j])
    ELSE 0

\* line 370: df_copy.loc[first_valid_index:] starts at the first valid
\* position; loc[None:] is the whole frame
WholeFrame(first) == 1
SliceStart(first) == IF first = 0 THEN 1 ELSE first

\* lines 373-376: the month's mean over the slice, written into the slice's
\* missing entries of that month
RECURSIVE FillMonths(_, _, _)
FillMonths(values, from, month) ==
    IF month = 0 THEN values
    ELSE LET sofar == FillMonths(values, from, month - 1)
             inMonth == {i \in DOMAIN sofar : i >= from /\ MonthOf(i) = month}
             ofMonth == [i \in DOMAIN sofar |-> IF i \in inMonth THEN sofar[i] ELSE NaN]
             month_mean == Mean(ofMonth)
         IN [i \in DOMAIN sofar |->
                IF i \in inMonth /\ ~IsNumber(sofar[i]) THEN month_mean ELSE sofar[i]]

\* line 379: DataFrame.update takes the other frame's entries that are not
\* missing, at the positions the other frame has
Update(values, other, from) ==
    [i \in DOMAIN values |->
        IF i >= from /\ IsNumber(other[i]) THEN other[i] ELSE values[i]]

nan_imputer(values) ==
    LET df_copy == ReplaceNaString(values)
        from == SliceStart(first_valid_index(df_copy))
        valid_values == FillMonths(df_copy, from, MonthsPerYear)
    IN Update(df_copy, valid_values, from)

InitImputer ==
    /\ InitIdleRest
    /\ df_value = <<>>
    /\ processed = [done |-> FALSE, rows |-> <<>>]
    /\ unfilled \in FrameValues
    /\ filled = [done |-> FALSE, values |-> <<>>]
    /\ InitIdleTensor

NanImputer ==
    /\ ~filled.done
    /\ filled' = [done |-> TRUE, values |-> nan_imputer(unfilled)]
    /\ UNCHANGED <<parseVars, folderVars, pipelineVars, dictVars,
                   pandas_empty_apply, nearestVars, joinVars, calendarVars, unfilled,
                   lagVars, windowVars>>

NextImputer == NanImputer

SpecImputer == InitImputer /\ [][NextImputer]_vars

(***************************************************************************)
(* Claims about nan_imputer.                                               *)
(***************************************************************************)
FirstObservation ==
    IF \E i \in DOMAIN unfilled : IsNumber(unfilled[i])
    THEN CHOOSE i \in DOMAIN unfilled :
            IsNumber(unfilled[i]) /\ \A j \in 1..(i - 1) : IsMissing(unfilled[j])
    ELSE CalMonths + 1
\* the observations of the month-of-year of position i, from the first
\* observation on
SameMonthObs(i) ==
    {j \in DOMAIN unfilled :
        j >= FirstObservation /\ MonthOf(j) = MonthOf(i) /\ IsNumber(unfilled[j])}
RECURSIVE Total(_)
Total(js) ==
    IF js = {} THEN 0 ELSE LET j == CHOOSE x \in js : TRUE IN unfilled[j][1] + Total(js \ {j})

\* C7: a missing entry at or after the first observation becomes the mean of
\* the observations of its month-of-year from the first observation on, and
\* a missing entry before the first observation stays as it is.
C7_MonthMean ==
    filled.done =>
        \A i \in DOMAIN unfilled :
            IsMissing(unfilled[i]) =>
                /\ i < FirstObservation => IsMissing(filled.values[i])
                /\ (i >= FirstObservation /\ SameMonthObs(i) # {}) =>
                      /\ IsNumber(filled.values[i])
                      /\ filled.values[i][1] * Cardinality(SameMonthObs(i))
                            = Total(SameMonthObs(i)) * filled.values[i][2]

\* a leading gap that stays, and a later gap filled with the mean of two
\* different observations
C7_Witness ==
    /\ filled.done
    /\ IsMissing(unfilled[1]) /\ IsMissing(filled.values[1])
    /\ \E i \in DOMAIN unfilled :
          /\ i > FirstObservation /\ IsMissing(unfilled[i])
          /\ Cardinality({unfilled[j] : j \in SameMonthObs(i)}) = 2
          /\ IsNumber(filled.values[i])

\* the month-of-year of position i has no observation in the whole series
NeverObserved(i) ==
    \A j \in DOMAIN unfilled : MonthOf(j) = MonthOf(i) => IsMissing(unfilled[j])

\* C8: a missing entry of a month-of-year that has no observation in the
\* series is still missing in the output, in a series without any
\* observation too; it is never zero or any other number.
C8_NoObservationStaysMissing ==
    filled.done =>
        \A i \in DOMAIN unfilled : NeverObserved(i) => filled.values[i] = NaN

\* a series with observations, one month-of-year without any, at a position
\* after the first observation
C8_Witness ==
    /\ filled.done
    /\ \E i \in DOMAIN unfilled :
          /\ NeverObserved(i)
          /\ i > FirstObservation
          /\ filled.values[i] = NaN

(***************************************************************************)
(* add_lag_and_rolling_mean, lines 432-447, on the Values of one frame.    *)
(***************************************************************************)
\* Series.shift(n): every value n rows later, NaN in the first n rows
Shift(values, n) ==
    [t \in DOMAIN values |-> IF t <= n THEN NaN ELSE values[t - n]]

\* Series.rolling(window=w).mean(): the mean of the last w rows, NaN while
\* fewer than w rows are there or one of them is missing
Rolling(values, w) ==
    [t \in DOMAIN values |->
        IF t < w THEN NaN
        ELSE IF \E j \in (t - w + 1)..t : ~IsNumber(values[j]) THEN NaN
             ELSE Mean(SubSeq(values, t - w + 1, t))]

\* line 446: df['lag_1'].shift(i) for i = 1
Unshifted(lag) == lag
ShiftedLag(lag) == Shift(lag, 1)

add_lag_and_rolling_mean(values, w) ==
    LET lag_1 == Shift(values, 1)                                \* line 444
    IN [done |-> TRUE, lag_1 |-> lag_1,
        rolling_mean |-> Rolling(ShiftedLag(lag_1), w)]          \* line 446

LagInputs == UNION {[1..n -> {NaN, Num(10), Num(20), Num(30), Num(40)}] : n \in 0..SeriesLen}

InitLag ==
    /\ InitIdleRest
    /\ df_value = <<>>
    /\ processed = [done |-> FALSE, rows |-> <<>>]
    /\ unfilled = <<>>
    /\ filled = [done |-> FALSE, values |-> <<>>]
    /\ series \in LagInputs
    /\ window \in 1..MaxWindow
    /\ augmented = [done |-> FALSE, lag_1 |-> <<>>, rolling_mean |-> <<>>]
    /\ num_time_steps = 0
    /\ window_size = 1
    /\ forecast_horizon = 1
    /\ start = 0
    /\ X = <<>>
    /\ y = <<>>
    /\ windows_pc = "idle"

AddLagAndRollingMean ==
    /\ ~augmented.done
    /\ augmented' = add_lag_and_rolling_mean(series, window)
    /\ UNCHANGED <<parseVars, folderVars, pipelineVars, dictVars,
                   pandas_empty_apply, nearestVars, joinVars, calendarVars, imputerVars,
                   series, window, windowVars>>

NextLag == AddLagAndRollingMean

SpecLag == InitLag /\ [][NextLag]_vars

RECURSIVE SumOf(_, _)
SumOf(lo, hi) == IF hi < lo THEN 0 ELSE series[hi][1] + SumOf(lo, hi - 1)

\* C9: lag_1[t] = v[t-1], missing in the first row; the rolling mean at row t
\* is the mean of v over the w rows that end two rows before t, and it is
\* missing (not zero) in the first w + 1 rows and wherever one of those w
\* values is missing.  Rows are counted from 1 here, so the rows t <= w of
\* the claim are the rows t <= w + 1.
C9_LagAndRollingMean ==
    augmented.done =>
        /\ Len(augmented.lag_1) = Len(series)
        /\ Len(augmented.rolling_mean) = Len(series)
        /\ \A t \in DOMAIN series :
              /\ augmented.lag_1[t] = IF t = 1 THEN NaN ELSE series[t - 1]
              /\ IF t <= window + 1
                    \/ \E j \in (t - window - 1)..(t - 2) : IsMissing(series[j])
                 THEN augmented.rolling_mean[t] = NaN
                 ELSE /\ IsNumber(augmented.rolling_mean[t])
                      /\ augmented.rolling_mean[t][1] * window
                            = SumOf(t - window - 1, t - 2) * augmented.rolling_mean[t][2]

\* the example of the claim
C9_Witness ==
    /\ augmented.done
    /\ series = <<Num(10), Num(20), Num(30), Num(40)>>
    /\ window = 2
    /\ augmented.lag_1 = <<NaN, Num(10), Num(20), Num(30)>>
    /\ augmented.rolling_mean = <<NaN, NaN, NaN, Num(15)>>

(***************************************************************************)
(* create_windows, lines 556-572.  The array is the list of its time       *)
(* steps 0 .. num_time_steps - 1; a window is the list of the time steps   *)
(* it holds.                                                               *)
(***************************************************************************)
\* data[a:b] along the first axis: the time steps a .. b - 1 that exist
Slice(n, a, b) == [i \in 1..(Min(b, n) - Min(a, n)) |-> a + i - 1]

\* line 560: range(num_time_steps - window_size - forecast_horizon + 1)
WithoutHorizon(n, w, h) == n - w + 1
RangeStop(n, w, h) == n - w - h + 1

InitWindows ==
    /\ InitIdleRest
    /\ df_value = <<>>
    /\ processed = [done |-> FALSE, rows |-> <<>>]
    /\ unfilled = <<>>
    /\ filled = [done |-> FALSE, values |-> <<>>]
    /\ series = <<>>
    /\ window = 1
    /\ augmented = [done |-> FALSE, lag_1 |-> <<>>, rolling_mean |-> <<>>]
    /\ num_time_steps \in 0..MaxTimeSteps
    /\ window_size \in 1..MaxWindowSize
    /\ forecast_horizon \in 1..MaxHorizon
    /\ start = 0
    /\ X = <<>>                                                  \* line 557
    /\ y = <<>>
    /\ windows_pc = "loop"

\* lines 560-563: one pass of the loop
WindowStep ==
    /\ windows_pc = "loop"
    /\ start < RangeStop(num_time_steps, window_size, forecast_horizon)
    /\ LET end == start + window_size
       IN /\ X' = Append(X, Slice(num_time_steps, start, end))
          /\ y' = Append(y, Slice(num_time_steps, end, end + forecast_horizon))
    /\ start' = start + 1
    /\ UNCHANGED <<parseVars, folderVars, pipelineVars, dictVars,
                   pandas_empty_apply, nearestVars, joinVars, calendarVars, imputerVars,
                   lagVars, num_time_steps, window_size, forecast_horizon, windows_pc>>

\* lines 565-572: np.array and reshape; with no window X has the shape (0,)
\* and X.shape[1] raises IndexError
WindowsReturn ==
    /\ windows_pc = "loop"
    /\ start >= RangeStop(num_time_steps, window_size, forecast_horizon)
    /\ windows_pc' = IF Len(X) = 0 THEN "IndexError" ELSE "returned"
    /\ UNCHANGED <<parseVars, folderVars, pipelineVars, dictVars,
                   pandas_empty_apply, nearestVars, joinVars, calendarVars, imputerVars,
                   lagVars, num_time_steps, window_size, forecast_horizon, start, X, y>>

NextWindows == WindowStep \/ WindowsReturn

SpecWindows == InitWindows /\ [][NextWindows]_vars

\* C10: with T >= w + h the call returns T - w - h + 1 pairs, pair s (from 0)
\* holding the time steps s .. s+w-1 as input and s+w .. s+w+h-1 as target:
\* every input has w steps, every target h, and no step is >= T.
C10_Windows ==
    (windows_pc # "loop" /\ num_time_steps >= window_size + forecast_horizon) =>
        /\ windows_pc = "returned"
        /\ Len(X) = num_time_steps - window_size - forecast_horizon + 1
        /\ Len(y) = Len(X)
        /\ \A s \in DOMAIN X :
              /\ X[s] = [i \in 1..window_size |-> (s - 1) + (i - 1)]
              /\ y[s] = [i \in 1..forecast_horizon |-> (s - 1) + window_size + (i - 1)]
              /\ \A i \in DOMAIN X[s] : X[s][i] < num_time_steps
              /\ \A i \in DOMAIN y[s] : y[s][i] < num_time_steps

\* the example of the spec: 24 time steps, window 12, horizon 6, 7 windows
C10_Witness ==
    /\ windows_pc = "returned"
    /\ num_time_steps = 24 /\ window_size = 12 /\ forecast_horizon = 6
    /\ Len(X) = 7
    /\ y[7] = <<18, 19, 20, 21, 22, 23>>

EarlierUnchanged ==
    UNCHANGED <<pandas_empty_apply, nearestVars, joinVars, calendarVars, imputerVars,
                lagVars, windowVars>>

\* nothing of the script before line 384 has run
InitIdleScript ==
    /\ pandas_empty_apply = "copy"
    /\ InitIdleNearest
    /\ InitIdleJoin
    /\ InitIdleFrames

(***************************************************************************)
(* to_dataframe, the lines of one file (lines 87-125).                     *)
(*                                                                         *)
(* A line is the sequence of its fields, line.split(';'): no field for a   *)
(* blank line, one for a line without a separator.  The date field is the  *)
(* format it is written in and the day it names.  The value field is text, *)
(* a sequence of characters: the file is opened with encoding='latin1'     *)
(* (line 72), so each of its bytes is one of the characters U+0000 to      *)
(* U+00FF, and the gap token of the data files reads L, U+00FC, c, k, e.   *)
(***************************************************************************)
MaxLines == 3        \* lines after the marker line of a file

Digits == <<"0", "1", "2", "3", "4", "5", "6", "7", "8", "9">>
FileGapToken == <<"L", "U+00FC", "c", "k", "e">>
NaNText == <<"N", "a", "N">>
\* line 104: the text the code looks for; its second character is U+FFFD, the
\* replacement character, in the source file
GapLiteral == <<"L", "U+FFFD", "c", "k", "e">>
\* line 107
Keywords ==
    << <<"F">>, <<"K">>,
       <<"r", "e", "k", "o", "n", "s", "t", "r", "u", "i", "e", "r", "t", " ",
         "a", "u", "s", " ", "V", "e", "r", "s", "i", "o", "n", " ", "3", "-", ">">> >>
\* lines 96 and 100
DateFormats == <<"%d.%m.%Y %H:%M:%S", "%d.%m.%Y %H:%M">>

\* str.strip()
Strip(s) ==
    LET kept == {i \in DOMAIN s : s[i] # " "}
    IN IF kept = {} THEN <<>>
       ELSE SubSeq(s, CHOOSE i \in kept : \A j \in kept : i <= j,
                      CHOOSE i \in kept : \A j \in kept : i >= j)

\* sub in s
Contains(s, sub) ==
    \E i \in 0..(Len(s) - Len(sub)) : SubSeq(s, i + 1, i + Len(sub)) = sub

\* s.replace(old, new), old not empty
RECURSIVE Replace(_, _, _)
Replace(s, old, new) ==
    IF s = <<>> THEN <<>>
    ELSE IF Len(old) <= Len(s) /\ SubSeq(s, 1, Len(old)) = old
         THEN new \o Replace(SubSeq(s, Len(old) + 1, Len(s)), old, new)
         ELSE <<Head(s)>> \o Replace(Tail(s), old, new)

IsDigits(s) == s # <<>> /\ \A i \in DOMAIN s : s[i] \in Range(Digits)
RECURSIVE ToInt(_)
ToInt(s) ==
    IF s = <<>> THEN 0
    ELSE 10 * ToInt(SubSeq(s, 1, Len(s) - 1))
            + (CHOOSE d \in 0..9 : Digits[d + 1] = s[Len(s)])
RECURSIVE Pow10(_)
Pow10(n) == IF n = 0 THEN 1 ELSE 10 * Pow10(n - 1)

\* np.float32(text), lines 111-114, on the texts of the model: digits, digits
\* with a decimal point, and NaN convert; any other text raises ValueError
DecimalPoint(s) ==
    LET points == {i \in DOMAIN s : /\ s[i] = "."
                                    /\ IsDigits(SubSeq(s, 1, i - 1))
                                    /\ IsDigits(SubSeq(s, i + 1, Len(s)))}
    IN IF points = {} THEN 0 ELSE CHOOSE i \in points : TRUE
CanFloat(s) == s = NaNText \/ IsDigits(s) \/ DecimalPoint(s) > 0
float32(s) ==
    IF s = NaNText THEN NaN
    ELSE IF IsDigits(s) THEN Num(ToInt(s))
    ELSE LET frac == SubSeq(s, DecimalPoint(s) + 1, Len(s))
         IN Norm(<<ToInt(SubSeq(s, 1, DecimalPoint(s) - 1) \o frac), Pow10(Len(frac))>>)

\* lines 95-102: strptime succeeds for a text written in the format asked for
CanParseDate(date_str) == \E i \in DOMAIN DateFormats : date_str.format = DateFormats[i]

Continue(row) == [do |-> "continue", row |-> row]
Break(row) == [do |-> "break", row |-> row]
NoRow == [Date |-> 0, Values |-> NaN]

\* lines 93-116: one iteration of the loop for a line that is not blank
ParseLine(line) ==
    IF Len(line) < 2 THEN Break(NoRow)       \* line 93 cannot unpack; lines 117-118
    ELSE LET date_str == line[1]
             value_str == Replace(Strip(line[2]), GapLiteral, NaNText)      \* line 104
         IN IF ~CanParseDate(date_str) THEN Continue(NoRow)                 \* line 102
            ELSE IF \E i \in DOMAIN Keywords : Contains(value_str, Keywords[i])
                 THEN Continue(NoRow)                                       \* line 108
            ELSE IF ~CanFloat(Replace(value_str, <<",">>, <<".">>))
                 THEN Continue(NoRow)                                       \* line 114
            ELSE [do |-> "append",
                  row |-> [Date |-> date_str.day,
                           Values |-> float32(Replace(value_str, <<",">>, <<".">>))]]

\* line 122: df.drop(df.index[-1])
drop_last(rows) == SubSeq(rows, 1, Len(rows) - 1)

DateStrs ==
    {[format |-> "%d.%m.%Y %H:%M:%S", day |-> 1], [format |-> "%d.%m.%Y %H:%M", day |-> 2]}
ValueStrs ==
    {<<"1", ",", "5">>, <<" ", "3", " ">>, NaNText, FileGapToken, <<"2", " ", "F">>, <<"K">>,
     Keywords[3], <<"a", "b", "c">>}
\* the lines of a file: blank, without a separator, with a date that no format
\* matches, and with a good date and any value
Lines ==
    {<<>>, << <<"a", "b", "c">> >>}
        \cup {<<[format |-> "%Y-%m-%d", day |-> 3], <<"1", ",", "5">>, <<>> >>}
        \cup {<<d, v, <<>> >> : d \in DateStrs, v \in ValueStrs}

InitParse ==
    /\ InitIdleScript
    /\ InitIdleFolder
    /\ InitIdlePipeline
    /\ InitIdleDict
    /\ data_lines \in UNION {[1..n -> Lines] : n \in 0..MaxLines}
    /\ line_no = 1
    /\ data_rows = <<>>
    /\ df_file = [built |-> FALSE, rows |-> <<>>]
    /\ parse_pc = "line90"

\* lines 90-118: one iteration
ParseStep ==
    /\ parse_pc = "line90"
    /\ line_no <= Len(data_lines)
    /\ LET line == data_lines[line_no]
           step == IF line = <<>> THEN Continue(NoRow) ELSE ParseLine(line)   \* line 91
       IN /\ data_rows' = IF step.do = "append" THEN Append(data_rows, step.row)
                          ELSE data_rows
          /\ parse_pc' = IF step.do = "break" THEN "line120" ELSE "line90"
    /\ line_no' = line_no + 1
    /\ UNCHANGED <<data_lines, df_file>>
    /\ UNCHANGED <<folderVars, pipelineVars, dictVars>>
    /\ EarlierUnchanged

\* lines 120-125: the frame of the file, when the loop is over
BuildFrame ==
    /\ \/ parse_pc = "line120"
       \/ parse_pc = "line90" /\ line_no > Len(data_lines)
    /\ df_file' = IF data_rows # <<>>
                  THEN [built |-> TRUE, rows |-> drop_last(data_rows)]
                  ELSE [built |-> FALSE, rows |-> <<>>]
    /\ parse_pc' = "done"
    /\ UNCHANGED <<data_lines, line_no, data_rows>>
    /\ UNCHANGED <<folderVars, pipelineVars, dictVars>>
    /\ EarlierUnchanged

NextParse == ParseStep \/ BuildFrame

SpecParse == InitParse /\ [][NextParse]_vars

\* what is claimed of the lines of a file
HasSeparator(line) == Len(line) >= 2
GoodDate(line) == HasSeparator(line) /\ CanParseDate(line[1])
IsGapLine(line) == GoodDate(line) /\ Strip(line[2]) = FileGapToken
IsFlagged(line) ==
    HasSeparator(line) /\ \E i \in DOMAIN Keywords : Contains(line[2], Keywords[i])
IsNumberLine(line) ==
    GoodDate(line) /\ CanFloat(Replace(Strip(line[2]), <<",">>, <<".">>))

\* the rows the lines should yield, in their order: a gap line a row with a
\* missing value, a flagged line none, a line with a number that number
RECURSIVE ClaimedRows(_)
ClaimedRows(lines) ==
    IF lines = <<>> THEN <<>>
    ELSE LET line == Head(lines)
             row == IF IsGapLine(line) THEN <<[Date |-> line[1].day, Values |-> NaN]>>
                    ELSE IF IsFlagged(line) THEN <<>>
                    ELSE IF IsNumberLine(line)
                         THEN <<[Date |-> line[1].day,
                                 Values |-> float32(Replace(Strip(line[2]), <<",">>, <<".">>))]>>
                    ELSE <<>>
         IN row \o ClaimedRows(Tail(lines))

\* C11: in a file whose lines all have a separator, a line whose value is the
\* gap token yields a row with a missing value, a line whose value holds a
\* quality flag yields no row, and of the n >= 1 rows parsed the last is
\* removed, so that the frame has n - 1 rows.
C11_Claim ==
    (parse_pc = "done" /\ \A i \in DOMAIN data_lines :
                              data_lines[i] = <<>> \/ HasSeparator(data_lines[i])) =>
        /\ data_rows = ClaimedRows(data_lines)
        /\ Len(data_rows) >= 1 =>
              /\ df_file.built
              /\ df_file.rows = SubSeq(data_rows, 1, Len(data_rows) - 1)

\* C12: a line whose date matches no format, or that is malformed (no
\* separator, a value that is no number), is skipped alone: every well-formed
\* line of the file, wherever it stands, has its row among the parsed rows.
C12_Claim ==
    parse_pc = "done" =>
        SelectSeq(data_rows, LAMBDA row : IsNumber(row.Values))
            = SelectSeq(ClaimedRows(data_lines), LAMBDA row : IsNumber(row.Values))

(***************************************************************************)
(* to_dataframe, the files of a folder (lines 62-134).                     *)
(*                                                                         *)
(* A file is its name, whether open() succeeds, its marker line and the    *)
(* lines after it.  The name is the key filename[-10:-4] (the station      *)
(* number, distinct for the files of one folder) and whether it ends with  *)
(* ".csv".  tip_coordinates is the set of the station numbers it holds.    *)
(***************************************************************************)
MaxFiles == 4        \* files of the folder

\* lines 90-118 as a function: the rows appended until the loop ends
RECURSIVE ParseLines(_, _)
ParseLines(lines, rows) ==
    IF lines = <<>> THEN rows
    ELSE LET step == IF Head(lines) = <<>> THEN Continue(NoRow) ELSE ParseLine(Head(lines))
         IN IF step.do = "break" THEN rows
            ELSE ParseLines(Tail(lines),
                            IF step.do = "append" THEN Append(rows, step.row) ELSE rows)

NoEntry == [entry |-> FALSE, rows |-> <<>>]

\* lines 64-125 for one file: the frame it adds to dataframes_dict, if any
FileEntry(file) ==
    IF ~file.name.csv THEN NoEntry                              \* line 64
    ELSE IF ~file.readable THEN NoEntry                         \* line 72 raises; 131-132
    ELSE IF file.marker = "none" THEN NoEntry                   \* lines 76-78
    ELSE IF file.marker = "Werte: Invalid" THEN NoEntry         \* lines 80-85
    ELSE LET rows == ParseLines(file.lines, <<>>)
         IN IF rows # <<>> THEN [entry |-> TRUE, rows |-> drop_last(rows)]   \* 120-125
            ELSE NoEntry

\* lines 78, 85, 132: continue goes on with the next file of the listing
StopListing(no, count) == count + 1
NextFile(no, count) == no + 1

FileLines ==
    {<<>>,
     << <<[format |-> DateFormats[1], day |-> 1], <<"1", ",", "5">>, <<>> >>,
        <<[format |-> DateFormats[2], day |-> 2], <<"3">>, <<>> >> >>,
     << <<[format |-> DateFormats[1], day |-> 1], <<"3">>, <<>> >>,
        << <<"a", "b", "c">> >>,
        <<[format |-> DateFormats[2], day |-> 2], <<"1", ",", "5">>, <<>> >> >>}
\* a file that is not read, for whatever reason, is one file
Listed(file) ==
    /\ ~file.name.csv => file.readable /\ file.marker = "none" /\ file.lines = <<>>
    /\ ~file.readable => file.marker = "none" /\ file.lines = <<>>
    /\ file.marker # "Werte:" => file.lines = <<>>
FilesAt(i) ==
    {file \in [name : [station : {i}, csv : BOOLEAN], readable : BOOLEAN,
               marker : {"none", "Werte:", "Werte: Invalid"}, lines : FileLines] :
        Listed(file)}
\* os.listdir: the files of the folder in some order, the i-th of station i
Listing(listing) == [i \in DOMAIN listing |-> [listing[i] EXCEPT !.name.station = i]]
tip_coordinates == {1, 2}

InitFolder ==
    /\ InitIdleScript
    /\ InitIdleParse
    /\ InitIdlePipeline
    /\ InitIdleDict
    /\ \E n \in 0..MaxFiles : \E listing \in [1..n -> FilesAt(1)] : files = Listing(listing)
    /\ file_no = 1
    /\ dataframes_dict = <<>>
    /\ coordinates = {}
    /\ folder_pc = "line62"

\* lines 62-132: one file of the listing
ProcessFile ==
    /\ folder_pc = "line62"
    /\ file_no <= Len(files)
    /\ LET file == files[file_no]
           found == FileEntry(file)
           df_name == file.name.station                                       \* line 123
       IN IF found.entry
          THEN /\ dataframes_dict' =
                     [key \in DOMAIN dataframes_dict \cup {df_name} |->
                         IF key = df_name THEN found.rows ELSE dataframes_dict[key]]
               /\ coordinates' = tip_coordinates \cap (DOMAIN dataframes_dict \cup {df_name})
               /\ file_no' = file_no + 1
          ELSE /\ UNCHANGED <<dataframes_dict, coordinates>>
               /\ file_no' = IF file.name.csv /\ (~file.readable \/ file.marker # "Werte:")
                             THEN NextFile(file_no, Len(files))
                             ELSE file_no + 1
    /\ UNCHANGED <<files, folder_pc>>
    /\ UNCHANGED <<parseVars, pipelineVars, dictVars>>
    /\ EarlierUnchanged

\* line 134
ReturnDict ==
    /\ folder_pc = "line62"
    /\ file_no > Len(files)
    /\ folder_pc' = "returned"
    /\ UNCHANGED <<files, file_no, dataframes_dict, coordinates>>
    /\ UNCHANGED <<parseVars, pipelineVars, dictVars>>
    /\ EarlierUnchanged

NextFolder == ProcessFile \/ ReturnDict

SpecFolder == InitFolder /\ [][NextFolder]_vars

WellFormed(file) == file.name.csv /\ file.readable /\ file.marker = "Werte:"

\* to_dataframe on a folder that holds this file alone
Alone(file) ==
    IF FileEntry(file).entry THEN {<<file.name.station, FileEntry(file).rows>>} ELSE {}

DefaultWindow == 2   \* window of add_lag_and_rolling_mean (6 in the code, line 432)

\* the statements of the script in the order of the file
PadFirst(pc) ==
    CASE pc = "line384" -> "line482"
      [] pc = "line482" -> "line449"
      [] OTHER -> "done"
After(pc) ==
    CASE pc = "line384" -> "line449"
      [] pc = "line449" -> "line482"
      [] OTHER -> "done"

\* lines 473-476: the months from start_date to df.index.max(), the frame
\* joined onto them, and fillna(0)
FillZero(values) ==
    LET period_range == 1..Len(values)
        joined == [i \in period_range |-> IF i \in DOMAIN values THEN values[i] ELSE NaN]
    IN [i \in period_range |-> IF IsMissing(joined[i]) THEN Zero ELSE joined[i]]

zero_padding(frame) ==
    [Values |-> FillZero(frame.Values),
     lag_1 |-> FillZero(frame.lag_1),
     rolling_mean |-> FillZero(frame.rolling_mean),
     columns |-> frame.columns]

PipelineValues == [1..CalMonths -> {NaNString, Num(1), Num(3)}]

InitPipeline ==
    /\ InitIdleScript
    /\ InitIdleParse
    /\ InitIdleFolder
    /\ InitIdleDict
    /\ pipeline_pc = "line384"
    /\ \E values \in PipelineValues :
          station_df = [Values |-> values, lag_1 |-> <<>>, rolling_mean |-> <<>>,
                        columns |-> 1]

\* lines 384-394
Impute ==
    /\ pipeline_pc = "line384"
    /\ station_df' = [station_df EXCEPT !.Values = nan_imputer(station_df.Values)]
    /\ pipeline_pc' = After(pipeline_pc)
    /\ UNCHANGED <<parseVars, folderVars, dictVars>>
    /\ EarlierUnchanged

\* lines 449-451
Augment ==
    /\ pipeline_pc = "line449"
    /\ LET new == add_lag_and_rolling_mean(station_df.Values, DefaultWindow)
       IN station_df' = [Values |-> station_df.Values, lag_1 |-> new.lag_1,
                         rolling_mean |-> new.rolling_mean, columns |-> 3]
    /\ pipeline_pc' = After(pipeline_pc)
    /\ UNCHANGED <<parseVars, folderVars, dictVars>>
    /\ EarlierUnchanged

\* lines 482-484
Pad ==
    /\ pipeline_pc = "line482"
    /\ station_df' = zero_padding(station_df)
    /\ pipeline_pc' = After(pipeline_pc)
    /\ UNCHANGED <<parseVars, folderVars, dictVars>>
    /\ EarlierUnchanged

NextPipeline == Impute \/ Augment \/ Pad

SpecPipeline == InitPipeline /\ [][NextPipeline]_vars

ColumnsOf(frame) == <<frame.Values, frame.lag_1, frame.rolling_mean>>
Padding == pipeline_pc = "line482" /\ pipeline_pc' # pipeline_pc
Augmenting == pipeline_pc = "line449" /\ pipeline_pc' # pipeline_pc

\* C14: imputation, then augmentation, then padding.  The padding step finds
\* the three columns, puts 0 in exactly their missing entries and leaves no
\* entry missing; the augmentation step reads Values as imputation left them,
\* so that a missing input gives a missing lag or rolling mean, never a value
\* computed from a padded 0; the script ends with the padding step.
C14_PadLast ==
    [][/\ Padding =>
            /\ station_df.columns = 3
            /\ \A c \in 1..3 :
                  /\ Len(ColumnsOf(station_df')[c]) = CalMonths
                  /\ \A i \in 1..CalMonths :
                        /\ ColumnsOf(station_df')[c][i] =
                              IF IsMissing(ColumnsOf(station_df)[c][i]) THEN Zero
                              ELSE ColumnsOf(station_df)[c][i]
                        /\ IsNumber(ColumnsOf(station_df')[c][i])
            /\ pipeline_pc' = "done"
       /\ Augmenting =>
            /\ station_df.columns = 1
            /\ station_df.Values = nan_imputer(station_df.Values)
            /\ \A i \in 2..CalMonths :
                  IsMissing(station_df.Values[i - 1]) => IsMissing(station_df'.lag_1[i])
            /\ \A i \in 1..CalMonths :
                  (\E j \in (i - DefaultWindow - 1)..(i - 2) :
                        j < 1 \/ IsMissing(station_df.Values[j]))
                     => IsMissing(station_df'.rolling_mean[i])
       /\ pipeline_pc' = "done" => Padding]_vars

\* a leading gap that imputation leaves, a gap it fills with the month's
\* mean 1, rolling means of 2 over the imputed values, and zeros only where
\* an entry was missing
C14_Witness ==
    /\ pipeline_pc = "done"
    /\ station_df.Values = <<Zero, Num(1), Num(3), Num(1), Num(3), Num(1)>>
    /\ station_df.lag_1 = <<Zero, Zero, Num(1), Num(3), Num(1), Num(3)>>
    /\ station_df.rolling_mean = <<Zero, Zero, Zero, Zero, Num(2), Num(2)>>

(***************************************************************************)
(* nan_imputer over a dictionary (lines 364-382).  A dictionary is the     *)
(* sequence of its items, [key, Values], in insertion order; the keys are  *)
(* distinct station numbers.                                               *)
(***************************************************************************)
MaxStations == 2     \* frames of the dictionary given to nan_imputer

\* line 367: what the argument's frame holds once df_copy has been edited in
\* place (replace of line 368, update of line 379); an assignment without
\* copy would share the data
SharedData(values, edited) == edited
DeepCopy(values, edited) == values

\* a frame without observation and a frame with leading gaps
OtherValues ==
    {[i \in 1..CalMonths |-> NaNString],
     [i \in 1..CalMonths |-> IF i < 3 THEN NaNString ELSE Num(i % 3)]}

InitDict ==
    /\ InitIdleScript
    /\ InitIdleParse
    /\ InitIdleFolder
    /\ InitIdlePipeline
    /\ \E n \in 0..MaxStations : \E first \in PipelineValues :
          \E others \in [2..n -> OtherValues] :
             unfilled_dict =
                [i \in 1..n |-> [key |-> i, Values |-> IF i = 1 THEN first ELSE others[i]]]
    /\ new_dict = <<>>
    /\ dict_pc = "line366"

\* lines 366-380: one item of the dictionary
ImputeItem ==
    /\ dict_pc = "line366"
    /\ Len(new_dict) < Len(unfilled_dict)
    /\ LET i == Len(new_dict) + 1
           df_name == unfilled_dict[i].key
           df_copy == nan_imputer(unfilled_dict[i].Values)
       IN /\ new_dict' = Append(new_dict, [key |-> df_name, Values |-> df_copy])
          /\ unfilled_dict' =
                [unfilled_dict EXCEPT ![i].Values = DeepCopy(@, df_copy)]
    /\ UNCHANGED dict_pc
    /\ UNCHANGED <<parseVars, folderVars, pipelineVars>>
    /\ EarlierUnchanged

\* line 382
ReturnNewDict ==
    /\ dict_pc = "line366"
    /\ Len(new_dict) = Len(unfilled_dict)
    /\ dict_pc' = "returned"
    /\ UNCHANGED <<unfilled_dict, new_dict>>
    /\ UNCHANGED <<parseVars, folderVars, pipelineVars>>
    /\ EarlierUnchanged

NextDict == ImputeItem \/ ReturnNewDict

SpecDict == InitDict /\ [][NextDict]_vars

\* C15: no step of nan_imputer changes its argument; every frame it has
\* built has the key and the index of the argument's frame at its place and
\* the argument's value wherever that is not missing; it returns one frame
\* per key.
C15_FrameEffect ==
    [][/\ unfilled_dict' = unfilled_dict
       /\ \A i \in DOMAIN new_dict' :
             /\ new_dict'[i].key = unfilled_dict[i].key
             /\ DOMAIN new_dict'[i].Values = DOMAIN unfilled_dict[i].Values
             /\ \A t \in DOMAIN unfilled_dict[i].Values :
                   IsNumber(unfilled_dict[i].Values[t]) =>
                       new_dict'[i].Values[t] = unfilled_dict[i].Values[t]
       /\ dict_pc' = "returned" =>
             {new_dict'[i].key : i \in DOMAIN new_dict'}
                 = {unfilled_dict[i].key : i \in DOMAIN unfilled_dict}]_vars

\* two stations returned; in the first a gap was filled with a month's mean
\* next to an observation that kept its value
C15_Witness ==
    /\ dict_pc = "returned"
    /\ Len(new_dict) = 2
    /\ \E t \in DOMAIN new_dict[1].Values :
          IsMissing(unfilled_dict[1].Values[t]) /\ IsNumber(new_dict[1].Values[t])
    /\ \E t \in DOMAIN new_dict[1].Values :
          IsNumber(unfilled_dict[1].Values[t])
             /\ new_dict[1].Values[t] = unfilled_dict[1].Values[t]
    /\ \A t \in DOMAIN new_dict[2].Values : IsMissing(new_dict[2].Values[t])

====
